---- MODULE Spec2Model ----
(***************************************************************************)
(* Model of the banking ledger engine (src/src/lib.rs): ClientAccount, the *)
(* per-client ledger, and PaymentEngine, the registry that routes every    *)
(* event to the lazily created account of the event's client.              *)
(*                                                                         *)
(* Money (rust_decimal::Decimal) is modelled as an integer number of the   *)
(* smallest unit: the engine only adds, subtracts and compares amounts,    *)
(* which Decimal does exactly; the amounts of the model stay far below the *)
(* 96-bit mantissa, so Decimal's overflow panic is out of reach here.      *)
(***************************************************************************)
EXTENDS Integers, Sequences, FiniteSets

\* ---------------------------------------------------------------- bounds
MaxAmount == 1     \* amounts are 0..MaxAmount (non-negative, zero included)
MaxEvents == 5     \* length of the event stream fed to the engine

Clients == {1, 2}  \* u16 client ids
TxIds == {1, 2}    \* u32 transaction ids
Amounts == 0..MaxAmount

VARIABLES
    state,      \* PaymentEngine.state: client id -> ClientAccount (partial map)
    panicked,   \* TRUE once an expect(...) of PaymentEngine has panicked
    last,       \* the event most recently passed to the engine
    nEvents,    \* number of events passed to the engine so far
    reused      \* TRUE once a transaction id was submitted a second time

vars == <<state, panicked, last, nEvents, reused>>

\* ------------------------------------------------------------ data model
Deposit(c, t, a) ==
    [type |-> "Deposit", client |-> c, transaction_id |-> t, amount |-> a]

Withdrawal(c, t, a) ==
    [type |-> "Withdrawal", client |-> c, transaction_id |-> t, amount |-> a]

Dispute(c, t) ==
    [type |-> "Dispute", client |-> c, referenced_transaction_id |-> t]

Resolve(c, t) ==
    [type |-> "Resolve", client |-> c, referenced_transaction_id |-> t]

Chargeback(c, t) ==
    [type |-> "Chargeback", client |-> c, referenced_transaction_id |-> t]

TransactionState == {"Accepted", "Rejected", "Disputed", "Resolved", "Chargebacked"}

TransactionHistoryRecord_new(transaction, accepted) ==
    [transaction |-> transaction,
     state |-> IF accepted THEN "Accepted" ELSE "Rejected"]

\* Mutant: a new account starts locked.
ClientAccount_new_locked(id) ==
    [id |-> id,
     transaction_history |-> << >>,
     dispute_history |-> << >>,
     available |-> 0,
     held |-> 0,
     locked |-> TRUE]

ClientAccount_new(id) ==
    [id |-> id,
     transaction_history |-> << >>,
     dispute_history |-> << >>,
     available |-> 0,
     held |-> 0,
     locked |-> FALSE]

\* HashMap::insert: the value stored under k is replaced when k is present.
HashMap_insert(m, k, v) ==
    [x \in (DOMAIN m) \cup {k} |-> IF x = k THEN v ELSE m[x]]

\* -------------------------------------------------------- ClientAccount
\* Mutant: the comparison is strict.
withdrawal_amount_allowed_strict(self, withdrawal_amount) ==
    self.available > withdrawal_amount

withdrawal_amount_allowed(self, withdrawal_amount) ==
    self.available >= withdrawal_amount

\* Mutant: the locked gate records the rejection but still credits the amount.
LockedTransaction_credits(self, transaction) ==
    [self EXCEPT
        !.available = @ + transaction.amount,
        !.transaction_history =
            HashMap_insert(@, transaction.transaction_id,
                           TransactionHistoryRecord_new(transaction, FALSE))]

\* Mutant: the locked gate records the transaction as Accepted.
LockedTransaction_accepted(self, transaction) ==
    [self EXCEPT !.transaction_history =
        HashMap_insert(@, transaction.transaction_id,
                       TransactionHistoryRecord_new(transaction, TRUE))]

\* add_transaction on a locked account: the record is stored as Rejected.
LockedTransaction(self, transaction) ==
    [self EXCEPT !.transaction_history =
        HashMap_insert(@, transaction.transaction_id,
                       TransactionHistoryRecord_new(transaction, FALSE))]

\* Mutant: the deposit is credited to held instead of available.
ApplyDeposit_to_held(self, transaction) ==
    [self EXCEPT
        !.held = @ + transaction.amount,
        !.transaction_history =
            HashMap_insert(@, transaction.transaction_id,
                           TransactionHistoryRecord_new(transaction, TRUE))]

\* add_transaction, the Deposit arm.
ApplyDeposit(self, transaction) ==
    [self EXCEPT
        !.available = @ + transaction.amount,
        !.transaction_history =
            HashMap_insert(@, transaction.transaction_id,
                           TransactionHistoryRecord_new(transaction, TRUE))]

\* Mutant: a withdrawal refused for lack of funds leaves no record.
ApplyWithdrawal_drops_rejected(self, transaction) ==
    IF withdrawal_amount_allowed(self, transaction.amount)
    THEN [self EXCEPT
            !.available = @ - transaction.amount,
            !.transaction_history =
                HashMap_insert(@, transaction.transaction_id,
                               TransactionHistoryRecord_new(transaction, TRUE))]
    ELSE self

\* add_transaction, the Withdrawal arm.
ApplyWithdrawal(self, transaction) ==
    IF withdrawal_amount_allowed(self, transaction.amount)
    THEN [self EXCEPT
            !.available = @ - transaction.amount,
            !.transaction_history =
                HashMap_insert(@, transaction.transaction_id,
                               TransactionHistoryRecord_new(transaction, TRUE))]
    ELSE [self EXCEPT
            !.transaction_history =
                HashMap_insert(@, transaction.transaction_id,
                               TransactionHistoryRecord_new(transaction, FALSE))]

\* Result<(), Transaction>: Err carries the passed-in event back.
ClientAccount_add_transaction(self, transaction) ==
    IF transaction.client # self.id
    THEN [result |-> "Err", err |-> transaction, self |-> self]
    ELSE IF self.locked
    THEN [result |-> "Ok", self |-> LockedTransaction(self, transaction)]
    ELSE IF transaction.type = "Deposit"
    THEN [result |-> "Ok", self |-> ApplyDeposit(self, transaction)]
    ELSE [result |-> "Ok", self |-> ApplyWithdrawal(self, transaction)]

\* add_dispute_action on a locked account: the action is pushed to the log.
LockedDisputeAction(self, dispute_action) ==
    [self EXCEPT !.dispute_history = Append(@, dispute_action)]

\* Mutant: the disputed deposit leaves available but is not added to held.
DisputeTransition_no_hold(self, dispute_action) ==
    LET id == dispute_action.referenced_transaction_id
        tx == self.transaction_history[id].transaction
        amount == tx.amount
    IN  [self EXCEPT
            !.available = IF tx.type = "Deposit" THEN @ - amount ELSE @,
            !.dispute_history = Append(@, dispute_action),
            !.transaction_history[id].state = "Disputed"]

\* Mutant: a disputed withdrawal is held like a deposit.
DisputeTransition_holds_withdrawal(self, dispute_action) ==
    LET id == dispute_action.referenced_transaction_id
        amount == self.transaction_history[id].transaction.amount
    IN  [self EXCEPT
            !.available = @ - amount,
            !.held = @ + amount,
            !.dispute_history = Append(@, dispute_action),
            !.transaction_history[id].state = "Disputed"]

\* (Accepted, Dispute)
DisputeTransition(self, dispute_action) ==
    LET id == dispute_action.referenced_transaction_id
        tx == self.transaction_history[id].transaction
        amount == tx.amount
    IN  [self EXCEPT
            !.available = IF tx.type = "Deposit" THEN @ - amount ELSE @,
            !.held = IF tx.type = "Deposit" THEN @ + amount ELSE @,
            !.dispute_history = Append(@, dispute_action),
            !.transaction_history[id].state = "Disputed"]

\* Mutant: resolving a disputed withdrawal refunds nothing.
ResolveTransition_no_refund(self, dispute_action) ==
    LET id == dispute_action.referenced_transaction_id
        tx == self.transaction_history[id].transaction
        amount == tx.amount
    IN  [self EXCEPT
            !.available = IF tx.type = "Deposit" THEN @ + amount ELSE @,
            !.held = IF tx.type = "Deposit" THEN @ - amount ELSE @,
            !.dispute_history = Append(@, dispute_action),
            !.transaction_history[id].state = "Resolved"]

\* Mutant: resolving a dispute locks the account as well.
ResolveTransition_locks(self, dispute_action) ==
    LET id == dispute_action.referenced_transaction_id
        tx == self.transaction_history[id].transaction
        amount == tx.amount
    IN  [self EXCEPT
            !.available = @ + amount,
            !.held = IF tx.type = "Deposit" THEN @ - amount ELSE @,
            !.locked = TRUE,
            !.dispute_history = Append(@, dispute_action),
            !.transaction_history[id].state = "Resolved"]

\* (Disputed, Resolve)
ResolveTransition(self, dispute_action) ==
    LET id == dispute_action.referenced_transaction_id
        tx == self.transaction_history[id].transaction
        amount == tx.amount
    IN  [self EXCEPT
            !.available = @ + amount,
            !.held = IF tx.type = "Deposit" THEN @ - amount ELSE @,
            !.dispute_history = Append(@, dispute_action),
            !.transaction_history[id].state = "Resolved"]

\* Mutant: the chargeback does not lock the account.
ChargebackTransition_no_lock(self, dispute_action) ==
    LET id == dispute_action.referenced_transaction_id
        tx == self.transaction_history[id].transaction
        amount == tx.amount
    IN  [self EXCEPT
            !.held = IF tx.type = "Deposit" THEN @ - amount ELSE @,
            !.dispute_history = Append(@, dispute_action),
            !.transaction_history[id].state = "Chargebacked"]

\* Mutant: the chargeback of a deposit leaves its amount in held.
ChargebackTransition_keeps_held(self, dispute_action) ==
    LET id == dispute_action.referenced_transaction_id
    IN  [self EXCEPT
            !.locked = TRUE,
            !.dispute_history = Append(@, dispute_action),
            !.transaction_history[id].state = "Chargebacked"]

\* (Disputed, Chargeback)
ChargebackTransition(self, dispute_action) ==
    LET id == dispute_action.referenced_transaction_id
        tx == self.transaction_history[id].transaction
        amount == tx.amount
    IN  [self EXCEPT
            !.held = IF tx.type = "Deposit" THEN @ - amount ELSE @,
            !.locked = TRUE,
            !.dispute_history = Append(@, dispute_action),
            !.transaction_history[id].state = "Chargebacked"]

\* Mutant: a Resolved record can be disputed again.
MatchStateAction_redispute(self, dispute_action) ==
    LET st == self.transaction_history[dispute_action.referenced_transaction_id].state
        kind == dispute_action.type
    IN  IF st \in {"Accepted", "Resolved"} /\ kind = "Dispute"
        THEN DisputeTransition(self, dispute_action)
        ELSE IF st = "Disputed" /\ kind = "Resolve"
        THEN ResolveTransition(self, dispute_action)
        ELSE IF st = "Disputed" /\ kind = "Chargeback"
        THEN ChargebackTransition(self, dispute_action)
        ELSE self

\* match (&mut referenced_transaction.state, &dispute_action): the three
\* effective pairs; each of the twelve other arms is empty.
MatchStateAction(self, dispute_action) ==
    LET st == self.transaction_history[dispute_action.referenced_transaction_id].state
        kind == dispute_action.type
    IN  IF st = "Accepted" /\ kind = "Dispute"
        THEN DisputeTransition(self, dispute_action)
        ELSE IF st = "Disputed" /\ kind = "Resolve"
        THEN ResolveTransition(self, dispute_action)
        ELSE IF st = "Disputed" /\ kind = "Chargeback"
        THEN ChargebackTransition(self, dispute_action)
        ELSE self

\* Mutant: the locked gate comes before the client check.
ClientAccount_add_dispute_action_gate_first(self, dispute_action) ==
    IF self.locked
    THEN [result |-> "Ok", self |-> LockedDisputeAction(self, dispute_action)]
    ELSE IF dispute_action.client # self.id
    THEN [result |-> "Err", err |-> dispute_action, self |-> self]
    ELSE IF dispute_action.referenced_transaction_id
                \notin DOMAIN self.transaction_history
    THEN [result |-> "Ok", self |-> self]
    ELSE [result |-> "Ok", self |-> MatchStateAction(self, dispute_action)]

\* Mutant: there is no locked gate before the lookup and the match.
ClientAccount_add_dispute_action_no_gate(self, dispute_action) ==
    IF dispute_action.client # self.id
    THEN [result |-> "Err", err |-> dispute_action, self |-> self]
    ELSE IF dispute_action.referenced_transaction_id
                \notin DOMAIN self.transaction_history
    THEN [result |-> "Ok", self |-> self]
    ELSE [result |-> "Ok", self |-> MatchStateAction(self, dispute_action)]

ClientAccount_add_dispute_action(self, dispute_action) ==
    IF dispute_action.client # self.id
    THEN [result |-> "Err", err |-> dispute_action, self |-> self]
    ELSE IF self.locked
    THEN [result |-> "Ok", self |-> LockedDisputeAction(self, dispute_action)]
    ELSE IF dispute_action.referenced_transaction_id
                \notin DOMAIN self.transaction_history
    THEN [result |-> "Ok", self |-> self]
    ELSE [result |-> "Ok", self |-> MatchStateAction(self, dispute_action)]

\* Mutant: total reports the available funds alone.
ClientAccount_total_available(self) == self.available

ClientAccount_total(self) == self.available + self.held

\* impl From<&ClientAccount> for RawOutputRecord (src/src/main.rs)
RawOutputRecord_from(c) ==
    [client |-> c.id,
     available |-> c.available,
     held |-> c.held,
     total |-> ClientAccount_total(c),
     locked |-> c.locked]

\* -------------------------------------------------------- PaymentEngine
\* Mutant: the account created on a miss gets another id than its key.
entry_or_insert_wrong_id(m, k) ==
    IF k \in DOMAIN m THEN m ELSE HashMap_insert(m, k, ClientAccount_new(k + 1))

\* Mutant: a miss starts a new map that holds the new account alone.
entry_or_insert_clears(m, k) ==
    IF k \in DOMAIN m THEN m ELSE HashMap_insert(<< >>, k, ClientAccount_new(k))

\* self.state.entry(k).or_insert_with(|| ClientAccount::new(k))
entry_or_insert(m, k) ==
    IF k \in DOMAIN m THEN m ELSE HashMap_insert(m, k, ClientAccount_new(k))

\* Every transaction id that has a history record in some account.
SeenTxIds == UNION {DOMAIN state[c].transaction_history : c \in DOMAIN state}

PaymentEngine_add_transaction(transaction) ==
    LET s == entry_or_insert(state, transaction.client)
        r == ClientAccount_add_transaction(s[transaction.client], transaction)
    IN  /\ nEvents < MaxEvents
        /\ ~panicked
        /\ state' = [s EXCEPT ![transaction.client] = r.self]
        /\ panicked' = (r.result = "Err")
        /\ last' = transaction
        /\ nEvents' = nEvents + 1
        /\ reused' = (reused \/ transaction.transaction_id \in SeenTxIds)

PaymentEngine_add_dispute_action(dispute_action) ==
    LET s == entry_or_insert(state, dispute_action.client)
        r == ClientAccount_add_dispute_action(s[dispute_action.client], dispute_action)
    IN  /\ nEvents < MaxEvents
        /\ ~panicked
        /\ state' = [s EXCEPT ![dispute_action.client] = r.self]
        /\ panicked' = (r.result = "Err")
        /\ last' = dispute_action
        /\ nEvents' = nEvents + 1
        /\ UNCHANGED reused

PaymentEngine_get_client_state(client_id) ==
    IF client_id \in DOMAIN state THEN {state[client_id]} ELSE {}

\* ------------------------------------------------------- specification
Transactions ==
    {Deposit(c, t, a) : c \in Clients, t \in TxIds, a \in Amounts}
    \cup {Withdrawal(c, t, a) : c \in Clients, t \in TxIds, a \in Amounts}

DisputeActions ==
    {Dispute(c, t) : c \in Clients, t \in TxIds}
    \cup {Resolve(c, t) : c \in Clients, t \in TxIds}
    \cup {Chargeback(c, t) : c \in Clients, t \in TxIds}

NoEvent == [type |-> "None"]

Init ==
    /\ state = << >>
    /\ panicked = FALSE
    /\ last = NoEvent
    /\ nEvents = 0
    /\ reused = FALSE

AddTransaction == \E transaction \in Transactions :
    PaymentEngine_add_transaction(transaction)

AddDisputeAction == \E dispute_action \in DisputeActions :
    PaymentEngine_add_dispute_action(dispute_action)

Next == AddTransaction \/ AddDisputeAction

Spec == Init /\ [][Next]_vars

\* The event stream as main.rs builds it: process() passes the amount column
\* of a deposit or withdrawal row to the engine as parsed, of either sign.
SignedAmounts == (0 - MaxAmount)..MaxAmount

SignedTransactions ==
    {Deposit(c, t, a) : c \in Clients, t \in TxIds, a \in SignedAmounts}
    \cup {Withdrawal(c, t, a) : c \in Clients, t \in TxIds, a \in SignedAmounts}

AddSignedTransaction == \E transaction \in SignedTransactions :
    PaymentEngine_add_transaction(transaction)

NextSigned == AddSignedTransaction \/ AddDisputeAction

SpecSigned == Init /\ [][NextSigned]_vars

\* ------------------------------------------------------------- claims
\* The account of client c before a step: the stored one, or the one the
\* registry creates on first reference.
Before(c) == IF c \in DOMAIN state THEN state[c] ELSE ClientAccount_new(c)

IsTransaction(e) == e.type \in {"Deposit", "Withdrawal"}
IsDisputeAction(e) == e.type \in {"Dispute", "Resolve", "Chargeback"}

RECURSIVE SumAmounts(_, _)
SumAmounts(history, ids) ==
    IF ids = {} THEN 0
    ELSE LET k == CHOOSE x \in ids : TRUE
         IN  history[k].transaction.amount + SumAmounts(history, ids \ {k})

\* The deposits of an account that are under dispute right now.
DisputedDeposits(self) ==
    {k \in DOMAIN self.transaction_history :
        /\ self.transaction_history[k].state = "Disputed"
        /\ self.transaction_history[k].transaction.type = "Deposit"}

\* C1: once an account is locked, no event changes its available, held or
\* locked; in particular locked never goes back to false.
LockImmutable ==
    [][\A c \in DOMAIN state :
          state[c].locked =>
              /\ c \in DOMAIN state'
              /\ state'[c].available = state[c].available
              /\ state'[c].held = state[c].held
              /\ state'[c].locked]_vars

\* C1 witness: a deposit of a positive amount has been applied to a locked
\* account (a deposit is recorded as Rejected only behind the locked gate).
LockImmutableWitness ==
    /\ last.type = "Deposit"
    /\ last.amount > 0
    /\ state[last.client].locked
    /\ state[last.client].transaction_history[last.transaction_id].state = "Rejected"

\* C2: with non-negative amounts and unique transaction ids, the available
\* balance of every account is never negative.
AvailableNonNegative ==
    ~reused => \A c \in DOMAIN state : state[c].available >= 0

\* C3: held is never negative, also when transaction ids are reused: held
\* always covers the amounts of the deposits currently in state Disputed, so
\* a Resolve or Chargeback only takes out of held what a Dispute of the same
\* record put in.
HeldNonNegative ==
    \A c \in DOMAIN state :
        /\ state[c].held >= 0
        /\ state[c].held >=
              SumAmounts(state[c].transaction_history, DisputedDeposits(state[c]))

\* C3 witness: in a stream that reused a transaction id, a Resolve has taken
\* a deposit's amount out of held, and an earlier dispute's amount is still held.
HeldNonNegativeWitness ==
    /\ reused
    /\ last.type = "Resolve"
    /\ nEvents = 5
    /\ LET self == state[last.client]
           id == last.referenced_transaction_id
       IN  /\ id \in DOMAIN self.transaction_history
           /\ self.transaction_history[id].state = "Resolved"
           /\ self.transaction_history[id].transaction.type = "Deposit"
           /\ self.transaction_history[id].transaction.amount > 0
           /\ self.held > 0
           /\ Len(self.dispute_history) = 3

\* C4: on an unlocked account a Withdrawal of amount a is Accepted and takes
\* exactly a from available iff available >= a; otherwise it is Rejected and
\* available stays; held and locked never change.
WithdrawalRule ==
    [][(last'.type = "Withdrawal" /\ ~Before(last'.client).locked) =>
          LET pre == Before(last'.client)
              post == state'[last'.client]
              rec == post.transaction_history[last'.transaction_id]
          IN  /\ rec.transaction = last'
              /\ post.held = pre.held
              /\ post.locked = pre.locked
              /\ IF pre.available >= last'.amount
                 THEN /\ rec.state = "Accepted"
                      /\ post.available = pre.available - last'.amount
                 ELSE /\ rec.state = "Rejected"
                      /\ post.available = pre.available]_vars

\* C4 witness: a withdrawal of a positive amount was accepted and left a
\* positive remainder on an unlocked account.
WithdrawalRuleWitness ==
    /\ last.type = "Withdrawal"
    /\ last.amount > 0
    /\ ~state[last.client].locked
    /\ state[last.client].transaction_history[last.transaction_id].state = "Accepted"
    /\ state[last.client].available > 0

\* C5: on an unlocked account a Deposit of amount a adds exactly a to
\* available, leaves held and locked alone and is recorded as Accepted.
DepositRule ==
    [][(last'.type = "Deposit" /\ ~Before(last'.client).locked) =>
          LET pre == Before(last'.client)
              post == state'[last'.client]
              rec == post.transaction_history[last'.transaction_id]
          IN  /\ rec.transaction = last'
              /\ rec.state = "Accepted"
              /\ post.available = pre.available + last'.amount
              /\ post.held = pre.held
              /\ post.locked = pre.locked]_vars

\* C5 witness: a positive deposit was accepted on an account that holds
\* disputed funds.
DepositRuleWitness ==
    /\ last.type = "Deposit"
    /\ last.amount > 0
    /\ ~state[last.client].locked
    /\ state[last.client].transaction_history[last.transaction_id].state = "Accepted"
    /\ state[last.client].held > 0
    /\ state[last.client].available = last.amount

\* C6: a Deposit or Withdrawal applied to a locked account is recorded as
\* Rejected and changes no balance, whatever its type, amount or the funds.
LockedGate ==
    [][(IsTransaction(last') /\ Before(last'.client).locked) =>
          LET pre == Before(last'.client)
              post == state'[last'.client]
              rec == post.transaction_history[last'.transaction_id]
          IN  /\ rec.transaction = last'
              /\ rec.state = "Rejected"
              /\ post.available = pre.available
              /\ post.held = pre.held]_vars

\* C6 witness: a withdrawal the available funds would cover was rejected
\* by a locked account.
LockedGateWitness ==
    /\ last.type = "Withdrawal"
    /\ last.amount > 0
    /\ state[last.client].locked
    /\ state[last.client].available >= last.amount
    /\ state[last.client].transaction_history[last.transaction_id].state = "Rejected"

\* The record a dispute action refers to, in the account before the step.
RefBefore(e) == Before(e.client).transaction_history[e.referenced_transaction_id]

\* A dispute action that reaches the (state, action) match: the account is
\* unlocked and the referenced id has a record whose state is st.
Matches(e, kind, st) ==
    /\ e.type = kind
    /\ ~Before(e.client).locked
    /\ e.referenced_transaction_id \in DOMAIN Before(e.client).transaction_history
    /\ RefBefore(e).state = st

\* C7: a Dispute of an Accepted transaction on an unlocked account moves the
\* record to Disputed; a deposit's amount goes from available to held (total
\* unchanged), a withdrawal changes no balance; locked stays false.
DisputeRule ==
    [][Matches(last', "Dispute", "Accepted") =>
          LET pre == Before(last'.client)
              post == state'[last'.client]
              tx == RefBefore(last').transaction
              rec == post.transaction_history[last'.referenced_transaction_id]
          IN  /\ rec.state = "Disputed"
              /\ rec.transaction = tx
              /\ ~post.locked
              /\ post.available + post.held = pre.available + pre.held
              /\ IF tx.type = "Deposit"
                 THEN /\ post.available = pre.available - tx.amount
                      /\ post.held = pre.held + tx.amount
                 ELSE /\ post.available = pre.available
                      /\ post.held = pre.held]_vars

\* C7 witness: deposit then dispute: the positive amount is held, nothing
\* is available.
DisputeRuleWitness ==
    /\ nEvents = 2
    /\ last.type = "Dispute"
    /\ LET self == state[last.client]
           id == last.referenced_transaction_id
       IN  /\ id \in DOMAIN self.transaction_history
           /\ self.transaction_history[id].state = "Disputed"
           /\ self.transaction_history[id].transaction.type = "Deposit"
           /\ self.held > 0
           /\ self.available = 0
           /\ ~self.locked

\* C8: a Resolve of a Disputed transaction on an unlocked account moves the
\* record to Resolved; a deposit's amount goes from held back to available
\* (total unchanged), a withdrawal's amount is added to available with held
\* unchanged (total grows by the amount); locked stays false.
ResolveRule ==
    [][Matches(last', "Resolve", "Disputed") =>
          LET pre == Before(last'.client)
              post == state'[last'.client]
              tx == RefBefore(last').transaction
              rec == post.transaction_history[last'.referenced_transaction_id]
          IN  /\ rec.state = "Resolved"
              /\ rec.transaction = tx
              /\ ~post.locked
              /\ post.available = pre.available + tx.amount
              /\ IF tx.type = "Deposit"
                 THEN /\ post.held = pre.held - tx.amount
                      /\ post.available + post.held = pre.available + pre.held
                 ELSE /\ post.held = pre.held
                      /\ post.available + post.held
                            = pre.available + pre.held + tx.amount]_vars

\* C8 witness: deposit, withdrawal of the same amount, dispute and resolve of
\* the withdrawal: the debit is refunded.
ResolveRuleWitness ==
    /\ nEvents = 4
    /\ last.type = "Resolve"
    /\ LET self == state[last.client]
           id == last.referenced_transaction_id
       IN  /\ id \in DOMAIN self.transaction_history
           /\ self.transaction_history[id].state = "Resolved"
           /\ self.transaction_history[id].transaction.type = "Withdrawal"
           /\ self.transaction_history[id].transaction.amount > 0
           /\ self.available = self.transaction_history[id].transaction.amount
           /\ self.held = 0
           /\ ~self.locked

\* C9: a Chargeback of a Disputed transaction on an unlocked account moves
\* the record to Chargebacked and locks the account; a deposit's amount
\* leaves held with available unchanged (total shrinks by the amount), a
\* withdrawal changes no balance.
ChargebackRule ==
    [][Matches(last', "Chargeback", "Disputed") =>
          LET pre == Before(last'.client)
              post == state'[last'.client]
              tx == RefBefore(last').transaction
              rec == post.transaction_history[last'.referenced_transaction_id]
          IN  /\ rec.state = "Chargebacked"
              /\ rec.transaction = tx
              /\ post.locked
              /\ post.available = pre.available
              /\ IF tx.type = "Deposit"
                 THEN /\ post.held = pre.held - tx.amount
                      /\ post.available + post.held
                            = pre.available + pre.held - tx.amount
                 ELSE post.held = pre.held]_vars

\* C9 witness: deposit, dispute, chargeback: the funds are gone and the
\* account is locked.
ChargebackRuleWitness ==
    /\ nEvents = 3
    /\ last.type = "Chargeback"
    /\ LET self == state[last.client]
           id == last.referenced_transaction_id
       IN  /\ id \in DOMAIN self.transaction_history
           /\ self.transaction_history[id].state = "Chargebacked"
           /\ self.transaction_history[id].transaction.type = "Deposit"
           /\ self.transaction_history[id].transaction.amount > 0
           /\ self.held = 0
           /\ self.available = 0
           /\ self.locked

\* The three (record state, action) pairs that have an effect.
EffectivePair(st, kind) ==
    \/ st = "Accepted" /\ kind = "Dispute"
    \/ st = "Disputed" /\ kind = "Resolve"
    \/ st = "Disputed" /\ kind = "Chargeback"

\* C10: for every (record state, action) pair other than the three effective
\* ones, the dispute action leaves the record's state, available, held,
\* locked and dispute_history unchanged.
NoOpPairs ==
    [][(/\ IsDisputeAction(last')
        /\ last'.referenced_transaction_id
              \in DOMAIN Before(last'.client).transaction_history
        /\ ~EffectivePair(RefBefore(last').state, last'.type)) =>
          LET pre == Before(last'.client)
              post == state'[last'.client]
              id == last'.referenced_transaction_id
          IN  /\ post.transaction_history[id].state = RefBefore(last').state
              /\ post.available = pre.available
              /\ post.held = pre.held
              /\ post.locked = pre.locked
              /\ post.dispute_history = pre.dispute_history]_vars

\* The account after a dispute action was applied to it.
AfterDisputeAction(self, dispute_action) ==
    ClientAccount_add_dispute_action(self, dispute_action).self

\* C11: in every reachable account state, applying the same Dispute of an
\* Accepted transaction twice in a row yields exactly the account state
\* (balances, lock, record states, dispute_history) that applying it once
\* yields.
DisputeIdempotent ==
    \A c \in DOMAIN state :
        \A id \in DOMAIN state[c].transaction_history :
            state[c].transaction_history[id].state = "Accepted" =>
                AfterDisputeAction(AfterDisputeAction(state[c], Dispute(c, id)),
                                   Dispute(c, id))
                    = AfterDisputeAction(state[c], Dispute(c, id))

\* A dispute action whose referenced id has no record in its client's history.
UnknownReference(e) ==
    /\ IsDisputeAction(e)
    /\ e.referenced_transaction_id
          \notin DOMAIN Before(e.client).transaction_history

\* C12: a Dispute, Resolve or Chargeback whose referenced id has no record in
\* that client's history (never seen, or seen only for another client) leaves
\* the account, locked or not, and every other account unchanged.
UnknownReferenceNoOp ==
    [][UnknownReference(last') =>
          /\ state'[last'.client] = Before(last'.client)
          /\ \A c \in DOMAIN state : state'[c] = state[c]]_vars

\* A dispute action that causes a record state transition.
Effective(e) ==
    /\ IsDisputeAction(e)
    /\ ~Before(e.client).locked
    /\ e.referenced_transaction_id \in DOMAIN Before(e.client).transaction_history
    /\ EffectivePair(RefBefore(e).state, e.type)

\* C13: dispute_history is exactly the dispute actions that caused a record
\* state transition, in arrival order: an effective action is appended, and
\* no other event (a no-op dispute action, any dispute action at a locked
\* account, a transaction) changes the log.
DisputeLogAccurate ==
    [][state'[last'.client].dispute_history =
          IF Effective(last')
          THEN Append(Before(last'.client).dispute_history, last')
          ELSE Before(last'.client).dispute_history]_vars

\* C14: when a transaction is submitted whose id already has a record in its
\* client's history, the first occurrence stays authoritative: the stored
\* transaction and its current state are not replaced or reset.
FirstOccurrenceAuthoritative ==
    [][(/\ IsTransaction(last')
        /\ last'.transaction_id
              \in DOMAIN Before(last'.client).transaction_history) =>
          state'[last'.client].transaction_history[last'.transaction_id]
              = Before(last'.client).transaction_history[last'.transaction_id]]_vars

\* C15: accounts are created lazily: no account exists before the first
\* event; every event (rejected, no-op or unknown reference included) adds
\* exactly its own client's account when missing and removes none; an
\* account is created with available = 0, held = 0 and unlocked, so after its
\* first event it holds at most that event's deposit; get_client_state finds
\* no account for a client no event has referenced.
LazyCreation ==
    /\ (nEvents = 0 => DOMAIN state = {})
    /\ [][/\ DOMAIN state' = DOMAIN state \cup {last'.client}
          /\ \A c \in Clients :
                (PaymentEngine_get_client_state(c)' = {})
                    <=> (c \notin DOMAIN state /\ c # last'.client)
          /\ last'.client \notin DOMAIN state =>
                LET post == state'[last'.client]
                IN  /\ post.id = last'.client
                    /\ post.available =
                          (IF last'.type = "Deposit" THEN last'.amount ELSE 0)
                    /\ post.held = 0
                    /\ ~post.locked
                    /\ post.dispute_history = << >>
                    /\ DOMAIN post.transaction_history =
                          (IF IsTransaction(last')
                           THEN {last'.transaction_id} ELSE {})]_vars

\* C15 witness: an account exists only because of a dispute action with an
\* unknown reference, while the other client has never been referenced.
LazyCreationWitness ==
    /\ nEvents = 1
    /\ IsDisputeAction(last)
    /\ DOMAIN state = {last.client}
    /\ state[last.client].available = 0
    /\ \E c \in Clients : PaymentEngine_get_client_state(c) = {}

\* C16: routing never fails: the account an event is delegated to has the
\* event's client id, so the client-mismatch Err is never returned and the
\* expect(...) never panics; every account stored under key k has id = k.
RoutingNeverFails ==
    /\ ~panicked
    /\ \A k \in DOMAIN state : state[k].id = k

\* C16 witness: the whole stream was routed, to accounts of both clients,
\* the last of them created by a dispute action.
RoutingNeverFailsWitness ==
    /\ nEvents = MaxEvents
    /\ DOMAIN state = Clients
    /\ IsDisputeAction(last)
    /\ state[last.client].transaction_history = << >>

\* C17: an event of client c changes nothing in the account of any other
\* client (balances, lock, transaction history, dispute history), also when
\* it references a transaction id that exists in the other client's history.
PerClientIndependence ==
    [][\A c \in DOMAIN state :
          c # last'.client =>
              /\ c \in DOMAIN state'
              /\ state'[c] = state[c]]_vars

\* C17 witness: a dispute action of one client referenced a transaction that
\* only the other client has, and that record is still Accepted.
PerClientIndependenceWitness ==
    /\ IsDisputeAction(last)
    /\ last.referenced_transaction_id
          \notin DOMAIN state[last.client].transaction_history
    /\ \E c \in DOMAIN state :
          /\ c # last.client
          /\ last.referenced_transaction_id \in DOMAIN state[c].transaction_history
          /\ state[c].transaction_history[last.referenced_transaction_id].state
                = "Accepted"
          /\ state[c].available > 0

\* C18: the total exposed for an account, by ClientAccount::total and in the
\* output record built from it, is available + held of that account; the
\* account stores no total of its own.
DerivedTotal ==
    \A c \in DOMAIN state :
        /\ ClientAccount_total(state[c]) = state[c].available + state[c].held
        /\ RawOutputRecord_from(state[c]).total
              = RawOutputRecord_from(state[c]).available
                    + RawOutputRecord_from(state[c]).held
        /\ RawOutputRecord_from(state[c]).available = state[c].available
        /\ RawOutputRecord_from(state[c]).held = state[c].held
        /\ "total" \notin DOMAIN state[c]

\* C18 witness: an account with funds both available and held, so that the
\* total differs from either balance.
DerivedTotalWitness ==
    \E c \in DOMAIN state :
        /\ state[c].available > 0
        /\ state[c].held > 0
        /\ RawOutputRecord_from(state[c]).total > state[c].available

\* The (record state, action kind) table: the state a record moves to.
TableNext(st, kind) ==
    IF st = "Accepted" /\ kind = "Dispute" THEN "Disputed"
    ELSE IF st = "Disputed" /\ kind = "Resolve" THEN "Resolved"
    ELSE IF st = "Disputed" /\ kind = "Chargeback" THEN "Chargebacked"
    ELSE st

DisputeActionOf(kind, c, id) ==
    [type |-> kind, client |-> c, referenced_transaction_id |-> id]

\* C19 as claimed: in every reachable account state a Resolve on a Disputed
\* record moves it to Resolved and releases its held amount, and a Chargeback
\* on a Disputed record moves it to Chargebacked; no record remains Disputed
\* after a Resolve or Chargeback that references it.
TableAuthoritativeEverywhere ==
    \A c \in DOMAIN state :
        \A id \in DOMAIN state[c].transaction_history :
            state[c].transaction_history[id].state = "Disputed" =>
                LET rec == state[c].transaction_history[id]
                    resolved == AfterDisputeAction(state[c], Resolve(c, id))
                    charged == AfterDisputeAction(state[c], Chargeback(c, id))
                IN  /\ resolved.transaction_history[id].state = "Resolved"
                    /\ rec.transaction.type = "Deposit" =>
                          resolved.held = state[c].held - rec.transaction.amount
                    /\ charged.transaction_history[id].state = "Chargebacked"

\* C19: on an unlocked account the outcome of a dispute action whose
\* referenced record exists is determined by the (record state, action kind)
\* pair: the record moves as the table says, a Resolve on a Disputed deposit
\* releases its held amount, and no other record changes. On a locked account
\* the locked gate comes first: no record state and no balance changes, so a
\* record that is Disputed stays Disputed.
TableAuthoritative ==
    \A c \in DOMAIN state :
        \A id \in DOMAIN state[c].transaction_history :
            \A kind \in {"Dispute", "Resolve", "Chargeback"} :
                LET self == state[c]
                    rec == self.transaction_history[id]
                    post == AfterDisputeAction(self, DisputeActionOf(kind, c, id))
                IN  IF self.locked
                    THEN /\ post.transaction_history = self.transaction_history
                         /\ post.available = self.available
                         /\ post.held = self.held
                         /\ post.locked
                    ELSE /\ post.transaction_history =
                                [self.transaction_history EXCEPT
                                    ![id].state = TableNext(rec.state, kind)]
                         /\ (rec.state = "Disputed" /\ kind = "Resolve"
                                /\ rec.transaction.type = "Deposit") =>
                                post.held = self.held - rec.transaction.amount
                         /\ post.locked =
                                (rec.state = "Disputed" /\ kind = "Chargeback")

\* C19 witness: a chargeback has just locked an account that has another
\* record under dispute, and a Resolve of that record leaves it Disputed.
TableAuthoritativeWitness ==
    /\ last.type = "Chargeback"
    /\ state[last.client].locked
    /\ \E id \in DOMAIN state[last.client].transaction_history :
          /\ state[last.client].transaction_history[id].state = "Disputed"
          /\ state[last.client].transaction_history[id].transaction.amount > 0
          /\ AfterDisputeAction(state[last.client], Resolve(last.client, id))
                .transaction_history[id].state = "Disputed"

\* The edges of the state diagram of TransactionState.
DiagramEdge(from, to) ==
    \/ from = "Accepted" /\ to = "Disputed"
    \/ from = "Disputed" /\ to = "Resolved"
    \/ from = "Disputed" /\ to = "Chargebacked"

\* C20: in a run with unique transaction ids a history record is created in
\* state Accepted or Rejected, is never deleted, keeps its transaction, and
\* changes state only along Accepted -> Disputed, Disputed -> Resolved,
\* Disputed -> Chargebacked; Rejected, Resolved and Chargebacked are terminal.
\* (The diagram has no cycle and no path of more than two edges, so a record
\* makes at most two transitions.)
RecordLifecycle ==
    [][~reused' =>
          /\ SeenTxIds \subseteq SeenTxIds'
          /\ \A c \in DOMAIN state' :
                \A id \in DOMAIN state'[c].transaction_history :
                    LET new == state'[c].transaction_history[id]
                    IN  IF c \in DOMAIN state
                            /\ id \in DOMAIN state[c].transaction_history
                        THEN LET old == state[c].transaction_history[id]
                             IN  /\ new.transaction = old.transaction
                                 /\ \/ new.state = old.state
                                    \/ DiagramEdge(old.state, new.state)
                        ELSE /\ new.state \in {"Accepted", "Rejected"}
                             /\ new.transaction = last']_vars

\* C20 witness: with unique ids, a Dispute has arrived for a record that was
\* disputed and resolved before, and the record is still Resolved.
RecordLifecycleWitness ==
    /\ ~reused
    /\ nEvents = 4
    /\ last.type = "Dispute"
    /\ ~state[last.client].locked
    /\ last.referenced_transaction_id
          \in DOMAIN state[last.client].transaction_history
    /\ state[last.client].transaction_history[last.referenced_transaction_id].state
          = "Resolved"
    /\ Len(state[last.client].dispute_history) = 2

\* The event just fed to the engine, addressed to each client in turn.
LastForEveryClient ==
    IF last = NoEvent THEN {} ELSE {[last EXCEPT !.client = o] : o \in Clients}

\* C21: ClientAccount::add_transaction and ClientAccount::add_dispute_action,
\* called on any reachable account with an event of another client, return
\* Err carrying the passed-in event and leave the account unchanged, locked
\* or not; called with an event of the account's own client they return Ok.
ClientMismatchIsErr ==
    \A c \in DOMAIN state :
        \A e \in LastForEveryClient :
            LET r == IF IsTransaction(e)
                     THEN ClientAccount_add_transaction(state[c], e)
                     ELSE ClientAccount_add_dispute_action(state[c], e)
            IN  IF e.client # c
                THEN r.result = "Err" /\ r.err = e /\ r.self = state[c]
                ELSE r.result = "Ok"

\* C21 witness: a locked account, which would log any dispute action and
\* reject any transaction of its own client, turns away another client's.
ClientMismatchIsErrWitness ==
    \E c \in DOMAIN state :
        /\ state[c].locked
        /\ state[c].available > 0
        /\ IsDisputeAction(last)
        /\ last.client # c
        /\ last.referenced_transaction_id \in DOMAIN state[c].transaction_history
        /\ ClientAccount_add_dispute_action(state[c], last).result = "Err"

\* C22: an account's transaction history has one record for each transaction
\* id submitted for its client in a Deposit or Withdrawal (accepted or
\* rejected, locked or not) and none for any other id: a new account has no
\* record, a transaction adds the record of its id, which holds the submitted
\* transaction, a dispute action adds and removes none, and no record is
\* ever removed.
OneEntryPerTransaction ==
    [][LET pre == Before(last'.client)
           post == state'[last'.client]
       IN  /\ DOMAIN post.transaction_history =
                 DOMAIN pre.transaction_history
                    \cup (IF IsTransaction(last')
                          THEN {last'.transaction_id} ELSE {})
           /\ IsTransaction(last') =>
                 post.transaction_history[last'.transaction_id].transaction.transaction_id
                     = last'.transaction_id
           /\ last'.client \notin DOMAIN state =>
                 DOMAIN pre.transaction_history = {}
           /\ SeenTxIds \subseteq SeenTxIds']_vars

\* C22 witness: a withdrawal refused for lack of funds on an unlocked account
\* has its record, beside the record of an earlier transaction.
OneEntryPerTransactionWitness ==
    /\ last.type = "Withdrawal"
    /\ ~state[last.client].locked
    /\ Cardinality(DOMAIN state[last.client].transaction_history) = 2
    /\ state[last.client].transaction_history[last.transaction_id].state = "Rejected"

\* C23: through PaymentEngine::add_transaction, a Deposit or Withdrawal with a
\* negative amount is never recorded as Accepted and changes neither balance;
\* a Deposit never decreases available and a Withdrawal never increases it.
AmountInvariantKept ==
    [][IsTransaction(last') =>
          LET pre == Before(last'.client)
              post == state'[last'.client]
          IN  /\ last'.amount < 0 =>
                    /\ post.transaction_history[last'.transaction_id].state # "Accepted"
                    /\ post.available = pre.available
                    /\ post.held = pre.held
              /\ last'.type = "Deposit" => post.available >= pre.available
              /\ last'.type = "Withdrawal" => post.available <= pre.available]_vars

\* The ids of the records of an account that are in state Chargebacked.
ChargebackedRecords(self) ==
    {k \in DOMAIN self.transaction_history :
        self.transaction_history[k].state = "Chargebacked"}

\* C24: after every event, while no transaction id has been submitted twice,
\* an account is locked exactly when its history holds a Chargebacked record;
\* an account that the registry has just created is unlocked, and the only
\* event after which an account is locked that was not locked before is a
\* Chargeback of its client.
LockOnlyByChargeback ==
    [][\A c \in DOMAIN state' :
          /\ ~reused' =>
                (state'[c].locked <=> ChargebackedRecords(state'[c]) # {})
          /\ c \notin DOMAIN state => ~state'[c].locked
          /\ state'[c].locked /\ ~Before(c).locked =>
                last'.type = "Chargeback" /\ last'.client = c]_vars

\* C24 witness: with unique ids so far, a Chargeback has just locked an
\* account while the other client's account, which has a disputed record,
\* is unlocked.
LockOnlyByChargebackWitness ==
    /\ ~reused
    /\ last.type = "Chargeback"
    /\ state[last.client].locked
    /\ last.referenced_transaction_id \in ChargebackedRecords(state[last.client])
    /\ \E o \in DOMAIN state :
          /\ ~state[o].locked
          /\ \E k \in DOMAIN state[o].transaction_history :
                state[o].transaction_history[k].state = "Disputed"

\* The ids of the records of an account that are in state Disputed.
DisputedRecords(self) ==
    {k \in DOMAIN self.transaction_history :
        self.transaction_history[k].state = "Disputed"}

\* The account after an event of its own client was applied to it.
AfterEvent(self, e) ==
    IF IsTransaction(e)
    THEN ClientAccount_add_transaction(self, e).self
    ELSE ClientAccount_add_dispute_action(self, e).self

\* No account has more than one Chargebacked record.
AtMostOneChargebacked ==
    \A c \in DOMAIN state : Cardinality(ChargebackedRecords(state[c])) <= 1

\* C25: every account has at most one Chargebacked record, and on a locked
\* account every record that is Disputed stays Disputed, and held stays what
\* it is, whatever event of its client comes next.
AtMostOneChargeback ==
    /\ AtMostOneChargebacked
    /\ \A c \in DOMAIN state :
          state[c].locked =>
              \A e \in {x \in Transactions \cup DisputeActions : x.client = c} :
                  LET after == AfterEvent(state[c], e)
                  IN  /\ after.held = state[c].held
                      /\ DisputedRecords(state[c]) \subseteq DisputedRecords(after)

\* The ids of the records of an account of one transaction type whose state
\* is one of the given states.
RecordsOf(self, type, states) ==
    {k \in DOMAIN self.transaction_history :
        /\ self.transaction_history[k].transaction.type = type
        /\ self.transaction_history[k].state \in states}

\* C26: while no transaction id has been submitted twice (amounts being
\* non-negative), every account has held equal to the sum of its Disputed
\* deposits, and available + held equal to the sum of its deposits in state
\* Accepted, Disputed or Resolved minus the sum of its withdrawals in state
\* Accepted, Disputed or Chargebacked.
BalanceConservation ==
    ~reused =>
        \A c \in DOMAIN state :
            LET self == state[c]
                h == self.transaction_history
            IN  /\ self.held = SumAmounts(h, RecordsOf(self, "Deposit", {"Disputed"}))
                /\ self.available + self.held =
                      SumAmounts(h, RecordsOf(self, "Deposit",
                                     {"Accepted", "Disputed", "Resolved"}))
                      - SumAmounts(h, RecordsOf(self, "Withdrawal",
                                     {"Accepted", "Disputed", "Chargebacked"}))

\* C26 witness: with unique ids so far, an account has a charged-back
\* deposit of a positive amount and an accepted withdrawal of a positive
\* amount, so that its available is negative.
BalanceConservationWitness ==
    /\ ~reused
    /\ \E c \in DOMAIN state :
          /\ \E k \in RecordsOf(state[c], "Deposit", {"Chargebacked"}) :
                state[c].transaction_history[k].transaction.amount > 0
          /\ \E k \in RecordsOf(state[c], "Withdrawal", {"Accepted"}) :
                state[c].transaction_history[k].transaction.amount > 0
          /\ state[c].available < 0

====
